---- MODULE Spec2Model ----
(***************************************************************************)
(* Model of the CDK application of hoanthan/infra-nextjs-strapi: the entry *)
(* point bin/infra-sample.ts instantiates StrapiStack (lib/strapi.ts) and  *)
(* NextjsStack (lib/nextjs.ts, kept as src/unnamed/part_000), and each     *)
(* constructor declares its resources statement by statement.             *)
(*                                                                         *)
(* Strings are TLC strings; Len, \o, SubSeq and Tail act on them as on     *)
(* sequences of characters.                                                *)
(***************************************************************************)
EXTENDS Integers, Sequences, FiniteSets, TLC

\* ------------------------------------------------------------------------
\* lodash startCase, as imported by both stack files, for ASCII input:
\* words() splits at non-alphanumeric characters, at lower->Upper, at
\* letter<->digit, and before the last capital of a run of capitals that a
\* lower-case letter follows; every word gets upperFirst and the words are
\* joined by one space.  (The ordinals 1st, 2nd, ... that lodash keeps in one
\* word are not modelled; no name of the program holds a digit.)
\* ------------------------------------------------------------------------
LowerChars == "abcdefghijklmnopqrstuvwxyz"

UpperChars == "ABCDEFGHIJKLMNOPQRSTUVWXYZ"

DigitChars == "0123456789"

CharAt(s, i) == SubSeq(s, i, i)

\* The position of character c in alphabet, 0 when it is not in it.
IndexIn(c, alphabet) ==
  IF \E i \in 1..Len(alphabet) : CharAt(alphabet, i) = c
  THEN CHOOSE i \in 1..Len(alphabet) : CharAt(alphabet, i) = c
  ELSE 0

IsLower(c) == IndexIn(c, LowerChars) > 0

IsUpper(c) == IndexIn(c, UpperChars) > 0

IsDigit(c) == IndexIn(c, DigitChars) > 0

IsAlnum(c) == IsLower(c) \/ IsUpper(c) \/ IsDigit(c)

upperFirst(w) ==
  IF w = "" THEN ""
  ELSE IF IsLower(CharAt(w, 1))
       THEN CharAt(UpperChars, IndexIn(CharAt(w, 1), LowerChars)) \o Tail(w)
       ELSE w

\* Whether a word ends after position i of s (s[i] and s[i+1] alphanumeric).
WordBreak(s, i) ==
  LET a == CharAt(s, i)
      b == CharAt(s, i + 1)
  IN  \/ IsLower(a) /\ IsUpper(b)
      \/ IsDigit(a) /\ ~IsDigit(b)
      \/ ~IsDigit(a) /\ IsDigit(b)
      \/ /\ IsUpper(a) /\ IsUpper(b)
         /\ i + 2 <= Len(s)
         /\ IsLower(CharAt(s, i + 2))

RECURSIVE wordsFrom(_, _, _, _)
\* The words of s from position i on, cur being the word in progress.
wordsFrom(s, i, cur, acc) ==
  LET flush == IF cur = "" THEN acc ELSE Append(acc, cur)
  IN  IF i > Len(s) THEN flush
      ELSE IF ~IsAlnum(CharAt(s, i)) THEN wordsFrom(s, i + 1, "", flush)
      ELSE IF i < Len(s) /\ IsAlnum(CharAt(s, i + 1)) /\ WordBreak(s, i)
           THEN wordsFrom(s, i + 1, "", Append(acc, cur \o CharAt(s, i)))
           ELSE wordsFrom(s, i + 1, cur \o CharAt(s, i), acc)

words(s) == wordsFrom(s, 1, "", <<>>)

RECURSIVE joinUpperFirst(_, _)
joinUpperFirst(ws, i) ==
  IF i > Len(ws) THEN ""
  ELSE (IF i > 1 THEN " " ELSE "") \o upperFirst(ws[i]) \o joinUpperFirst(ws, i + 1)

startCase(s) == joinUpperFirst(words(s), 1)

\* A faulty naming helper: the resource name is used as written.
getConstructIdRaw(id, name) == "stack-" \o id \o "-" \o name

\* getConstructId = (name) => `stack-${this.id}-${startCase(name)}`
getConstructId(id, name) == "stack-" \o id \o "-" \o startCase(name)


\* ------------------------------------------------------------------------
\* Expressions of the constructors that yield a string: a literal, a call
\* this.getConstructId(text), or Stack.of(this).stackName.
\* ------------------------------------------------------------------------
Lit(s) == [how |-> "lit", text |-> s]

Gid(n) == [how |-> "gid", text |-> n]

StackName == [how |-> "stackName", text |-> ""]

None == [how |-> "none", text |-> ""]

\* One statement of a constructor.  var: the local it binds ("" when none);
\* scope: the construct scope the new construct is put in ("" when the
\* statement creates no construct); id: the construct id; name: the physical
\* name it assigns; uses: the locals it reads; mentions: the strings it
\* computes to name another construct; fixed / own: its other settings.
Stmt(kind, var, scope, id, name, uses, mentions, fixed, own) ==
  [kind |-> kind, var |-> var, scope |-> scope, id |-> id, name |-> name,
   uses |-> uses, mentions |-> mentions, fixed |-> fixed, own |-> own]

NoProps == [none |-> TRUE]

\* securityGroup.addIngressRule(Peer.anyIpv4(), Port.tcp(port))
IngressRule(port) ==
  Stmt("addIngressRule", "", "", None, None, {"securityGroup"}, <<>>,
       [peer |-> "0.0.0.0/0", protocol |-> "tcp", port |-> port], NoProps)

\* The Role's settings, the same text in both files.
RoleProps ==
  [assumedBy |-> "ec2.amazonaws.com",
   inlinePolicies |-> [RetentionPolicy |->
      [resources |-> <<"*">>, actions |-> <<"logs:PutRetentionPolicy">>]],
   managedPolicies |-> <<"AmazonSSMManagedInstanceCore",
                         "CloudWatchAgentServerPolicy",
                         "service-role/AWSAppRunnerServicePolicyForECRAccess",
                         "service-role/AmazonEC2ContainerServiceforEC2Role">>]

\* ------------------------------------------------------------------------
\* lib/strapi.ts: the statements of StrapiStack's constructor, in order.
\* ------------------------------------------------------------------------
StrapiVpc ==
  Stmt("Vpc.fromLookup", "vpc", "this", Lit("vpc"), None, {}, <<>>,
       [vpcId |-> "props.vpcId"], NoProps)

StrapiSecurityGroup ==
  Stmt("SecurityGroup", "securityGroup", "this", Gid("sg"), Gid("sg"),
       {"vpc"}, <<>>, [allowAllOutbound |-> TRUE],
       [description |-> "Strapi Security Group"])

\* A faulty rule list: the application port rule opens another port.
StrapiIngressWrongPort ==
  <<IngressRule(22), IngressRule(80), IngressRule(443), IngressRule(8080)>>

StrapiIngress ==
  <<IngressRule(22), IngressRule(80), IngressRule(443), IngressRule(1337)>>

StrapiKeyPair ==
  Stmt("KeyPair", "keyPair", "this", Gid("keyPair"), Gid("keyPair"),
       {}, <<>>, NoProps, NoProps)

StrapiRole ==
  Stmt("Role", "role", "this", Gid("role"), Gid("role"), {}, <<>>,
       RoleProps, NoProps)

StrapiCluster ==
  Stmt("Cluster", "cluster", "this", Gid("cluster"), Lit("nextjs_strapi"),
       {"vpc"}, <<>>, NoProps, NoProps)

StrapiUserData ==
  Stmt("UserData.forLinux", "userData", "", None, None, {}, <<>>,
       NoProps, NoProps)

StrapiUserDataCommands ==
  Stmt("userData.addCommands", "", "", None, None, {"userData"},
       <<Gid("asg")>>,
       [commands |-> << <<Lit("#!/bin/bash")>>,
                        <<Lit("yum update -y")>>,
                        <<Lit("yum install -y aws-cfn-bootstrap")>>,
                        <<Lit("/opt/aws/bin/cfn-signal --stack "), StackName,
                          Lit(" --resource "), Gid("asg"),
                          Lit(" --region us-east-1 --exit-code $?")>> >>],
       NoProps)

StrapiLaunchTemplate ==
  Stmt("LaunchTemplate", "launchTemplate", "this", Gid("instance"),
       Lit("strapi"), {"securityGroup", "keyPair", "role", "userData"}, <<>>,
       [instanceType |-> "t2.micro",
        machineImage |-> "EcsOptimizedImage.amazonLinux2023"], NoProps)

\* The AutoScalingGroup's settings (durations in minutes).
AsgProps(desired, min, max) ==
  [desiredCapacity |-> desired, minCapacity |-> min, maxCapacity |-> max,
   terminationPolicies |-> <<"OLDEST_INSTANCE">>,
   instanceMonitoring |-> "BASIC",
   init |-> [configSets |-> [default |-> <<"config">>], config |-> <<>>],
   initOptions |-> [includeUrl |-> TRUE, includeRole |-> TRUE, printLog |-> TRUE],
   healthCheck |-> [type |-> "ec2", grace |-> 5],
   signals |-> [type |-> "waitForAll", timeout |-> 5]]

\* A faulty group: it may grow to two instances.
StrapiAutoScalingGroupMax2 ==
  Stmt("AutoScalingGroup", "autoScalingGroup", "this", Gid("asg"), Gid("asg"),
       {"vpc", "launchTemplate"}, <<>>, AsgProps(1, 1, 2), NoProps)

StrapiAutoScalingGroup ==
  Stmt("AutoScalingGroup", "autoScalingGroup", "this", Gid("asg"), Gid("asg"),
       {"vpc", "launchTemplate"}, <<>>, AsgProps(1, 1, 1), NoProps)

StrapiCapacityProvider ==
  Stmt("AsgCapacityProvider", "", "this", Gid("AsgCapacityProvider"), None,
       {"cluster", "autoScalingGroup"}, <<>>,
       [enableManagedTerminationProtection |-> FALSE], NoProps)

StrapiLogging ==
  Stmt("AwsLogDriver", "logging", "this", Gid("logGroup"), None, {}, <<>>,
       NoProps, [streamPrefix |-> "strapi", logGroupName |-> "strapi"])

StrapiTaskDef ==
  Stmt("Ec2TaskDefinition", "taskDef", "this", Lit("strapi"), Lit("strapi"),
       {}, <<>>, NoProps, NoProps)

StrapiRepo ==
  Stmt("Repository.fromRepositoryName", "repo", "this", Gid("repo"), None,
       {}, <<>>, NoProps, [repositoryName |-> "strapi-sample"])

\* The container's settings shared by both files (durations in seconds).
ContainerProps(hostPort) ==
  [cpu |-> 256, memoryReservationMiB |-> 256,
   hostPort |-> hostPort, protocol |-> "tcp", portMappings |-> 1,
   interval |-> 30, timeout |-> 5, retries |-> 2, startPeriod |-> 60]

StrapiContainer ==
  Stmt("addContainer", "container", "taskDef", Gid("strapiContainer"),
       Lit("strapi"), {"taskDef", "repo", "logging"}, <<>>,
       ContainerProps(80),
       [containerPort |-> 1337,
        command |-> <<"CMD-SHELL", "curl -f http://localhost:1337 || exit 1">>])

\* A faulty service: its construct id is the literal the task definition has.
StrapiServiceLiteralId ==
  Stmt("Ec2Service", "service", "this", Lit("strapi"), Gid("service"),
       {"cluster", "taskDef"}, <<>>,
       [desiredCount |-> 1, minHealthyPercent |-> 0, maxHealthyPercent |-> 100],
       NoProps)

StrapiService ==
  Stmt("Ec2Service", "service", "this", Gid("strapi"), Gid("service"),
       {"cluster", "taskDef"}, <<>>,
       [desiredCount |-> 1, minHealthyPercent |-> 0, maxHealthyPercent |-> 100],
       NoProps)

\* A faulty output: it prints the service's construct id.
StrapiOutputOfId ==
  Stmt("CfnOutput", "", "this", Lit("Service Name"), None, {"service"}, <<>>,
       [value |-> [var |-> "service", attr |-> "id"]], NoProps)

StrapiOutput ==
  Stmt("CfnOutput", "", "this", Lit("Service Name"), None, {"service"}, <<>>,
       [value |-> [var |-> "service", attr |-> "serviceName"]], NoProps)

StrapiProgram ==
  <<StrapiVpc, StrapiSecurityGroup>> \o StrapiIngress \o
  <<StrapiKeyPair, StrapiRole, StrapiCluster, StrapiUserData,
    StrapiUserDataCommands, StrapiLaunchTemplate, StrapiAutoScalingGroup,
    StrapiCapacityProvider, StrapiLogging, StrapiTaskDef, StrapiRepo,
    StrapiContainer, StrapiService, StrapiOutput>>

\* ------------------------------------------------------------------------
\* lib/nextjs.ts (src/unnamed/part_000): the statements of NextjsStack's
\* constructor, in order.
\* ------------------------------------------------------------------------
NextjsVpc ==
  Stmt("Vpc.fromLookup", "vpc", "this", Lit("vpc"), None, {}, <<>>,
       [vpcId |-> "props.vpcId"], NoProps)

NextjsSecurityGroup ==
  Stmt("SecurityGroup", "securityGroup", "this", Gid("sg"), Gid("sg"),
       {"vpc"}, <<>>, [allowAllOutbound |-> TRUE],
       [description |-> "Nextjs Security Group"])

NextjsIngress ==
  <<IngressRule(22), IngressRule(80), IngressRule(443), IngressRule(3000)>>

NextjsKeyPair ==
  Stmt("KeyPair", "keyPair", "this", Gid("keyPair"), Gid("keyPair"),
       {}, <<>>, NoProps, NoProps)

NextjsRole ==
  Stmt("Role", "role", "this", Gid("role"), Gid("role"), {}, <<>>,
       RoleProps, NoProps)

NextjsCluster ==
  Stmt("Cluster", "cluster", "this", Gid("cluster"), Lit("nextjs"),
       {"vpc"}, <<>>, NoProps, NoProps)

NextjsUserData ==
  Stmt("UserData.forLinux", "userData", "", None, None, {}, <<>>,
       NoProps, NoProps)

NextjsUserDataCommands ==
  Stmt("userData.addCommands", "", "", None, None, {"userData"},
       <<Gid("asg")>>,
       [commands |-> << <<Lit("#!/bin/bash")>>,
                        <<Lit("yum update -y")>>,
                        <<Lit("yum install -y aws-cfn-bootstrap")>>,
                        <<Lit("/opt/aws/bin/cfn-signal --stack "), StackName,
                          Lit(" --resource "), Gid("asg"),
                          Lit(" --region us-east-1 --exit-code $?")>> >>],
       NoProps)

NextjsLaunchTemplate ==
  Stmt("LaunchTemplate", "launchTemplate", "this", Gid("template"),
       Lit("next"), {"securityGroup", "keyPair", "role", "userData"}, <<>>,
       [instanceType |-> "t2.micro",
        machineImage |-> "EcsOptimizedImage.amazonLinux2023"], NoProps)

NextjsAutoScalingGroup ==
  Stmt("AutoScalingGroup", "autoScalingGroup", "this", Gid("asg"), Gid("asg"),
       {"vpc", "launchTemplate"}, <<>>, AsgProps(1, 1, 1), NoProps)

NextjsCapacityProvider ==
  Stmt("AsgCapacityProvider", "", "this", Gid("AsgCapacityProvider"), None,
       {"cluster", "autoScalingGroup"}, <<>>,
       [enableManagedTerminationProtection |-> FALSE], NoProps)

NextjsLogging ==
  Stmt("AwsLogDriver", "logging", "this", Gid("logGroup"), None, {}, <<>>,
       NoProps, [streamPrefix |-> "nextjs", logGroupName |-> "nextjs"])

NextjsTaskDef ==
  Stmt("Ec2TaskDefinition", "taskDef", "this", Lit("nextjs"), Lit("nextjs"),
       {}, <<>>, NoProps, NoProps)

NextjsRepo ==
  Stmt("Repository.fromRepositoryName", "repo", "this", Gid("repo"), None,
       {}, <<>>, NoProps, [repositoryName |-> "nextjs-sample"])

\* A faulty container: the mapping points at another container port than the
\* one the health check probes and the security group opens.
NextjsContainerPort3001 ==
  Stmt("addContainer", "", "taskDef", Gid("nextjsContainer"),
       Lit("nextjs"), {"taskDef", "repo", "logging"}, <<>>,
       ContainerProps(80),
       [containerPort |-> 3001,
        command |-> <<"CMD-SHELL", "curl -f http://localhost:3000 || exit 1">>])

NextjsContainer ==
  Stmt("addContainer", "", "taskDef", Gid("nextjsContainer"),
       Lit("nextjs"), {"taskDef", "repo", "logging"}, <<>>,
       ContainerProps(80),
       [containerPort |-> 3000,
        command |-> <<"CMD-SHELL", "curl -f http://localhost:3000 || exit 1">>])

\* A faulty service: it asks for two tasks where the other stack asks for one.
NextjsServiceDesired2 ==
  Stmt("Ec2Service", "service", "this", Gid("nextjs"), Gid("service"),
       {"cluster", "taskDef"}, <<>>,
       [desiredCount |-> 2, minHealthyPercent |-> 0, maxHealthyPercent |-> 100],
       NoProps)

NextjsService ==
  Stmt("Ec2Service", "service", "this", Gid("nextjs"), Gid("service"),
       {"cluster", "taskDef"}, <<>>,
       [desiredCount |-> 1, minHealthyPercent |-> 0, maxHealthyPercent |-> 100],
       NoProps)

NextjsOutput ==
  Stmt("CfnOutput", "", "this", Lit("Service Name"), None, {"service"}, <<>>,
       [value |-> [var |-> "service", attr |-> "serviceName"]], NoProps)

\* A faulty constructor: the key pair is declared after the launch template
\* that takes it.
NextjsProgramKeyPairLate ==
  <<NextjsVpc, NextjsSecurityGroup>> \o NextjsIngress \o
  <<NextjsRole, NextjsCluster, NextjsUserData,
    NextjsUserDataCommands, NextjsLaunchTemplate, NextjsKeyPair,
    NextjsAutoScalingGroup,
    NextjsCapacityProvider, NextjsLogging, NextjsTaskDef, NextjsRepo,
    NextjsContainer, NextjsService, NextjsOutput>>

NextjsProgram ==
  <<NextjsVpc, NextjsSecurityGroup>> \o NextjsIngress \o
  <<NextjsKeyPair, NextjsRole, NextjsCluster, NextjsUserData,
    NextjsUserDataCommands, NextjsLaunchTemplate, NextjsAutoScalingGroup,
    NextjsCapacityProvider, NextjsLogging, NextjsTaskDef, NextjsRepo,
    NextjsContainer, NextjsService, NextjsOutput>>

\* ------------------------------------------------------------------------
\* bin/infra-sample.ts: the entry point makes the App, then the two stacks.
\* ------------------------------------------------------------------------
commonVpcId == "vpc-0c92b6779493dfa0c"

\* The values process.env may hold for CDK_DEFAULT_ACCOUNT / _REGION.
Accounts == {"111111111111", "222222222222"}

Regions == {"us-east-1", "eu-west-1", "ap-southeast-1"}

\* The `new XStack(app, id, {...commonStackProps, vpcId})` calls, in order.
EntryPoint ==
  << [class |-> "StrapiStack", id |-> "strapi", program |-> StrapiProgram],
     [class |-> "NextjsStack", id |-> "nextjs", program |-> NextjsProgram] >>

StackIds == {EntryPoint[i].id : i \in 1..Len(EntryPoint)}

VARIABLES
  env,        \* commonStackProps.env: [account, region] read from process.env
  cur,        \* the entry point's position: the stack under construction (0: none yet)
  pc,         \* the next statement of the running constructor
  stacks,     \* per stack id: what super(scope, id, props) and `private readonly id` keep
  declared,   \* per stack id: the statements run so far, strings resolved
  ingress,    \* per stack id: the security group's ingress rules
  providers,  \* per stack id: the cluster's capacity providers (group ids)
  userData,   \* per stack id: the bootstrap script's command lines
  outputs,    \* per stack id: the stack outputs [id, value]
  calls       \* every getConstructId call so far: [stack, name, result]

vars == <<env, cur, pc, stacks, declared, ingress, providers, userData, outputs, calls>>

Init ==
  /\ env \in [account : Accounts, region : Regions]
  /\ cur = 0
  /\ pc = 1
  /\ stacks = [s \in StackIds |-> [made |-> FALSE, id |-> "", stackName |-> "",
                                   account |-> "", region |-> "", vpcId |-> ""]]
  /\ declared = [s \in StackIds |-> <<>>]
  /\ ingress = [s \in StackIds |-> {}]
  /\ providers = [s \in StackIds |-> {}]
  /\ userData = [s \in StackIds |-> <<>>]
  /\ outputs = [s \in StackIds |-> <<>>]
  /\ calls = <<>>

\* ------------------------------------------------------------------------
\* The running constructor.
\* ------------------------------------------------------------------------
Running == cur \in 1..Len(EntryPoint)

This == EntryPoint[cur].id

Program == EntryPoint[cur].program

\* The constructor is about to run a statement of this kind.
AtStmt(kind) ==
  /\ Running
  /\ pc <= Len(Program)
  /\ Program[pc].kind = kind

\* The string an expression yields in the running constructor.
Resolve(e) ==
  CASE e.how = "lit" -> e.text
    [] e.how = "gid" -> getConstructId(stacks[This].id, e.text)
    [] e.how = "stackName" -> stacks[This].stackName
    [] OTHER -> ""

RECURSIVE ResolveAll(_)
ResolveAll(es) ==
  IF es = <<>> THEN <<>> ELSE <<Resolve(Head(es))>> \o ResolveAll(Tail(es))

RECURSIVE Concat(_)
Concat(parts) ==
  IF parts = <<>> THEN "" ELSE Head(parts) \o Concat(Tail(parts))

\* The getConstructId calls a statement makes, in source order.
RECURSIVE GidCalls(_)
GidCalls(es) ==
  IF es = <<>> THEN <<>>
  ELSE (IF Head(es).how = "gid"
        THEN << [stack |-> stacks[This].id, name |-> Head(es).text,
                 result |-> Resolve(Head(es))] >>
        ELSE <<>>) \o GidCalls(Tail(es))

\* What a statement leaves behind: its strings resolved.
Resolved(st, fixed) ==
  [kind |-> st.kind, var |-> st.var, scope |-> st.scope,
   cid |-> Resolve(st.id), idHow |-> st.id.how,
   name |-> Resolve(st.name), nameHow |-> st.name.how,
   uses |-> st.uses, mentions |-> ResolveAll(st.mentions),
   fixed |-> fixed, own |-> st.own]

\* The statement at pc runs: it is recorded, and the constructor moves on.
Run(fixed) ==
  /\ declared' = [declared EXCEPT ![This] = Append(@, Resolved(Program[pc], fixed))]
  /\ calls' = calls \o GidCalls(<<Program[pc].id, Program[pc].name>> \o Program[pc].mentions)
  /\ pc' = pc + 1
  /\ UNCHANGED <<env, cur, stacks>>

\* The attribute of the construct a local of stack s is bound to.
ValueOf(s, var, attr) ==
  LET is == {i \in DOMAIN declared[s] : declared[s][i].var = var}
  IN  IF is = {} THEN "undefined"
      ELSE LET r == declared[s][CHOOSE i \in is : \A j \in is : j <= i]
           IN  CASE attr = "serviceName" -> r.name
                 [] attr = "id" -> r.cid
                 [] OTHER -> "undefined"

\* new XStack(app, id, {...commonStackProps, vpcId: commonVpcId}): super() and
\* the parameter property `id`; the constructor's body follows.
Enter(i) ==
  /\ cur' = i
  /\ pc' = 1
  /\ stacks' = [stacks EXCEPT ![EntryPoint[i].id] =
                  [made |-> TRUE, id |-> EntryPoint[i].id,
                   stackName |-> EntryPoint[i].id,
                   account |-> env.account, region |-> env.region,
                   vpcId |-> commonVpcId]]
  /\ UNCHANGED <<env, declared, ingress, providers, userData, outputs, calls>>

NewStrapiStack ==
  /\ cur = 0
  /\ Enter(1)

\* The second `new` runs once the first constructor has returned.
NewNextjsStack ==
  /\ cur = 1
  /\ pc > Len(Program)
  /\ Enter(2)

VpcFromLookup ==
  /\ AtStmt("Vpc.fromLookup")
  /\ Run([vpcId |-> stacks[This].vpcId])
  /\ UNCHANGED <<ingress, providers, userData, outputs>>

NewSecurityGroup ==
  /\ AtStmt("SecurityGroup")
  /\ Run(Program[pc].fixed)
  /\ ingress' = [ingress EXCEPT ![This] = {}]
  /\ UNCHANGED <<providers, userData, outputs>>

AddIngressRule ==
  /\ AtStmt("addIngressRule")
  /\ Run(Program[pc].fixed)
  /\ ingress' = [ingress EXCEPT ![This] = @ \cup {Program[pc].fixed}]
  /\ UNCHANGED <<providers, userData, outputs>>

NewKeyPair ==
  /\ AtStmt("KeyPair")
  /\ Run(Program[pc].fixed)
  /\ UNCHANGED <<ingress, providers, userData, outputs>>

NewRole ==
  /\ AtStmt("Role")
  /\ Run(Program[pc].fixed)
  /\ UNCHANGED <<ingress, providers, userData, outputs>>

NewCluster ==
  /\ AtStmt("Cluster")
  /\ Run(Program[pc].fixed)
  /\ providers' = [providers EXCEPT ![This] = {}]
  /\ UNCHANGED <<ingress, userData, outputs>>

UserDataForLinux ==
  /\ AtStmt("UserData.forLinux")
  /\ Run(Program[pc].fixed)
  /\ userData' = [userData EXCEPT ![This] = <<>>]
  /\ UNCHANGED <<ingress, providers, outputs>>

UserDataAddCommands ==
  /\ AtStmt("userData.addCommands")
  /\ LET cmds == Program[pc].fixed.commands
         lines == [i \in 1..Len(cmds) |-> Concat(ResolveAll(cmds[i]))]
     IN  /\ Run([commands |-> lines])
         /\ userData' = [userData EXCEPT ![This] = @ \o lines]
  /\ UNCHANGED <<ingress, providers, outputs>>

NewLaunchTemplate ==
  /\ AtStmt("LaunchTemplate")
  /\ Run(Program[pc].fixed)
  /\ UNCHANGED <<ingress, providers, userData, outputs>>

NewAutoScalingGroup ==
  /\ AtStmt("AutoScalingGroup")
  /\ Run(Program[pc].fixed)
  /\ UNCHANGED <<ingress, providers, userData, outputs>>

AddAsgCapacityProvider ==
  /\ AtStmt("AsgCapacityProvider")
  /\ Run(Program[pc].fixed)
  /\ providers' = [providers EXCEPT ![This] = @ \cup {ValueOf(This, "autoScalingGroup", "id")}]
  /\ UNCHANGED <<ingress, userData, outputs>>

NewAwsLogDriver ==
  /\ AtStmt("AwsLogDriver")
  /\ Run(Program[pc].fixed)
  /\ UNCHANGED <<ingress, providers, userData, outputs>>

NewEc2TaskDefinition ==
  /\ AtStmt("Ec2TaskDefinition")
  /\ Run(Program[pc].fixed)
  /\ UNCHANGED <<ingress, providers, userData, outputs>>

RepositoryFromRepositoryName ==
  /\ AtStmt("Repository.fromRepositoryName")
  /\ Run(Program[pc].fixed)
  /\ UNCHANGED <<ingress, providers, userData, outputs>>

AddContainer ==
  /\ AtStmt("addContainer")
  /\ Run(Program[pc].fixed)
  /\ UNCHANGED <<ingress, providers, userData, outputs>>

NewEc2Service ==
  /\ AtStmt("Ec2Service")
  /\ Run(Program[pc].fixed)
  /\ UNCHANGED <<ingress, providers, userData, outputs>>

NewCfnOutput ==
  /\ AtStmt("CfnOutput")
  /\ Run(Program[pc].fixed)
  /\ outputs' = [outputs EXCEPT ![This] =
       Append(@, [id |-> Resolve(Program[pc].id),
                  value |-> ValueOf(This, Program[pc].fixed.value.var,
                                    Program[pc].fixed.value.attr)])]
  /\ UNCHANGED <<ingress, providers, userData>>

Next ==
  \/ NewStrapiStack
  \/ NewNextjsStack
  \/ VpcFromLookup
  \/ NewSecurityGroup
  \/ AddIngressRule
  \/ NewKeyPair
  \/ NewRole
  \/ NewCluster
  \/ UserDataForLinux
  \/ UserDataAddCommands
  \/ NewLaunchTemplate
  \/ NewAutoScalingGroup
  \/ AddAsgCapacityProvider
  \/ NewAwsLogDriver
  \/ NewEc2TaskDefinition
  \/ RepositoryFromRepositoryName
  \/ AddContainer
  \/ NewEc2Service
  \/ NewCfnOutput

Spec == Init /\ [][Next]_vars

\* ------------------------------------------------------------------------
\* Properties.
\* ------------------------------------------------------------------------
\* The constructor of stack s has run all its statements.
Done(s) ==
  \E i \in 1..Len(EntryPoint) :
    /\ EntryPoint[i].id = s
    /\ Len(declared[s]) = Len(EntryPoint[i].program)

\* The positions in declared[s] of the statements of a kind.
OfKind(s, kind) == {i \in DOMAIN declared[s] : declared[s][i].kind = kind}

\* The application port the specification gives each stack.
AppPort(s) == IF s = "strapi" THEN 1337 ELSE 3000

OtherStack(s) == IF s = "strapi" THEN "nextjs" ELSE "strapi"

\* The position in s of the first occurrence of sub, 0 when there is none.
Find(s, sub) ==
  LET hits == {i \in 1..Len(s) : i + Len(sub) - 1 <= Len(s)
                                  /\ SubSeq(s, i, i + Len(sub) - 1) = sub}
  IN  IF hits = {} THEN 0 ELSE CHOOSE i \in hits : \A j \in hits : i <= j

\* The longest run from position i of s of characters satisfying no blank.
RECURSIVE Token(_, _)
Token(s, i) ==
  IF i > Len(s) \/ CharAt(s, i) = " " THEN ""
  ELSE CharAt(s, i) \o Token(s, i + 1)

\* The argument that follows `flag` on a command line ("" when absent).
ArgAfter(cmd, flag) ==
  LET at == Find(cmd, flag \o " ")
  IN  IF at = 0 THEN "" ELSE Token(cmd, at + Len(flag) + 1)

RECURSIVE DigitsValue(_, _, _)
\* The number the decimal digits of s from position i on spell, after acc.
DigitsValue(s, i, acc) ==
  IF i > Len(s) \/ ~IsDigit(CharAt(s, i)) THEN acc
  ELSE DigitsValue(s, i + 1, acc * 10 + IndexIn(CharAt(s, i), DigitChars) - 1)

\* The port of the http://localhost:<port> URL in a shell command, -1 when
\* the command probes no such URL.
UrlPort(cmd) ==
  LET at == Find(cmd, "http://localhost:")
  IN  IF at = 0 THEN -1 ELSE DigitsValue(cmd, at + Len("http://localhost:"), 0)

\* C1: in both stacks the auto scaling group is declared with minCapacity =
\* maxCapacity = desiredCapacity = 1, and a constructed stack has exactly one
\* such group: the group has fixed size 1.
C1_ScalingBounds ==
  \A s \in StackIds :
    /\ \A i \in OfKind(s, "AutoScalingGroup") :
         /\ declared[s][i].fixed.minCapacity = 1
         /\ declared[s][i].fixed.maxCapacity = 1
         /\ declared[s][i].fixed.desiredCapacity = 1
    /\ Done(s) => Cardinality(OfKind(s, "AutoScalingGroup")) = 1

C1_Witness ==
  \A s \in StackIds : Done(s) /\ OfKind(s, "AutoScalingGroup") # {}

\* C2: in each stack the single container's single port mapping has the
\* stack's application port (1337 CMS, 3000 web) as containerPort and 80 as
\* hostPort; the security group opens that application port and the
\* container health check probes it.
C2_PortsMatch ==
  \A s \in StackIds :
    /\ \A i \in OfKind(s, "addContainer") :
         LET c == declared[s][i]
         IN  /\ c.own.containerPort = AppPort(s)
             /\ c.fixed.hostPort = 80
             /\ c.fixed.portMappings = 1
             /\ UrlPort(c.own.command[2]) = c.own.containerPort
             /\ [peer |-> "0.0.0.0/0", protocol |-> "tcp",
                 port |-> c.own.containerPort] \in ingress[s]
    /\ Done(s) => Cardinality(OfKind(s, "addContainer")) = 1

C2_Witness ==
  \A s \in StackIds :
    /\ OfKind(s, "addContainer") # {}
    /\ \E r \in ingress[s] : r.port = AppPort(s)

\* C3: every getConstructId(n) call of a stack with identifier id returns
\* "stack-" + id + "-" + startCase(n); the result is a function of (id, n)
\* alone, so two calls with the same arguments return the same identifier.
C3_NamingConvention ==
  /\ \A i \in DOMAIN calls :
       calls[i].result = "stack-" \o calls[i].stack \o "-" \o startCase(calls[i].name)
  /\ \A i, j \in DOMAIN calls :
       (calls[i].stack = calls[j].stack /\ calls[i].name = calls[j].name)
         => calls[i].result = calls[j].result
  /\ \A s \in StackIds : \A i \in DOMAIN declared[s] :
       LET r == declared[s][i]
       IN  /\ r.idHow = "gid" =>
                \E k \in DOMAIN calls : calls[k].stack = s /\ calls[k].result = r.cid
           /\ r.kind = "KeyPair" => r.cid = "stack-" \o s \o "-Key Pair"
           /\ r.kind = "AsgCapacityProvider" =>
                r.cid = "stack-" \o s \o "-Asg Capacity Provider"
           /\ r.kind = "SecurityGroup" => r.cid = "stack-" \o s \o "-Sg"

\* The same arguments were passed twice, in both stacks.
C3_Witness ==
  /\ \E i, j \in DOMAIN calls :
       /\ i < j
       /\ calls[i] = [stack |-> "strapi", name |-> "keyPair",
                      result |-> "stack-strapi-Key Pair"]
       /\ calls[j] = calls[i]
  /\ \E i \in DOMAIN calls :
       calls[i] = [stack |-> "nextjs", name |-> "nextjsContainer",
                   result |-> "stack-nextjs-Nextjs Container"]

\* The four rules the specification gives the security group of stack s.
FourRules(s) ==
  {[peer |-> "0.0.0.0/0", protocol |-> "tcp", port |-> p] :
     p \in {22, 80, 443, AppPort(s)}}

\* C4: the security group of each stack allows all outbound traffic, never
\* holds an ingress rule other than TCP 22, 80, 443 and the application port
\* from any IPv4 source, and holds exactly these four after construction.
C4_IngressRules ==
  \A s \in StackIds :
    /\ ingress[s] \subseteq FourRules(s)
    /\ \A i \in OfKind(s, "SecurityGroup") : declared[s][i].fixed.allowAllOutbound
    /\ Done(s) => /\ ingress[s] = FourRules(s)
                  /\ Cardinality(OfKind(s, "SecurityGroup")) = 1

C4_Witness ==
  \A s \in StackIds : Done(s) /\ Cardinality(ingress[s]) = 4

\* The order the specification gives the declarations of a constructor.
DeclarationOrder ==
  <<"Vpc.fromLookup", "SecurityGroup", "KeyPair", "Role", "Cluster",
    "LaunchTemplate", "AutoScalingGroup", "AsgCapacityProvider",
    "Ec2TaskDefinition", "addContainer", "Ec2Service", "CfnOutput">>

OrderedKinds == {DeclarationOrder[i] : i \in DOMAIN DeclarationOrder}

\* The statements of stack s so far that declare one of the ordered kinds
\* are, in the order they ran, the first ones of DeclarationOrder.
InOrder(s) ==
  LET at == {i \in DOMAIN declared[s] : declared[s][i].kind \in OrderedKinds}
      rank(i) == Cardinality({j \in at : j <= i})
  IN  /\ Cardinality(at) <= Len(DeclarationOrder)
      /\ \A i \in at : declared[s][i].kind = DeclarationOrder[rank(i)]

\* Every local a statement of stack s reads was bound by an earlier one.
UsesEarlier(s) ==
  \A i \in DOMAIN declared[s] :
    \A v \in declared[s][i].uses :
      \E j \in 1..(i - 1) : declared[s][j].var = v

\* Statement i of stack s names, by identifier, a construct that an earlier
\* statement of the stack declared.
NamesEarlier(s, i, m) ==
  \E j \in 1..(i - 1) : declared[s][j].scope = "this" /\ declared[s][j].cid = m

\* C5, as claimed: the declarations run in the given order and no
\* declaration refers, by local or by identifier, to a resource that is not
\* yet declared.
C5_OnlyEarlierResources ==
  \A s \in StackIds :
    /\ InOrder(s)
    /\ UsesEarlier(s)
    /\ \A i \in DOMAIN declared[s] :
         \A k \in DOMAIN declared[s][i].mentions :
           NamesEarlier(s, i, declared[s][i].mentions[k])

\* C5, amended: the declarations run in the given order and every resource
\* object a declaration takes was declared at an earlier step; the one
\* reference by identifier, the bootstrap script's cfn-signal --resource,
\* names the auto scaling group, which no earlier step has declared and
\* which is declared after the launch template that carries the script.
C5_OrderWithForwardName ==
  \A s \in StackIds :
    /\ InOrder(s)
    /\ UsesEarlier(s)
    /\ \A i \in DOMAIN declared[s] :
         \A k \in DOMAIN declared[s][i].mentions :
           LET m == declared[s][i].mentions[k]
           IN  /\ declared[s][i].kind = "userData.addCommands"
               /\ ~NamesEarlier(s, i, m)
               /\ \A j \in OfKind(s, "AutoScalingGroup") :
                    /\ j > i
                    /\ declared[s][j].cid = m
                    /\ \E t \in OfKind(s, "LaunchTemplate") : i < t /\ t < j
               /\ Done(s) => OfKind(s, "AutoScalingGroup") # {}

C5_Witness ==
  \A s \in StackIds :
    /\ Done(s)
    /\ \E i \in OfKind(s, "userData.addCommands") :
         declared[s][i].mentions = <<"stack-" \o s \o "-Asg">>
    /\ \E j \in OfKind(s, "AutoScalingGroup") :
         declared[s][j].cid = "stack-" \o s \o "-Asg"

\* What a statement record of stack s says once the per-stack constants
\* (identifier, names, repository, application port, health-check command)
\* are left out.
Shape(s, r) ==
  [kind |-> r.kind, scope |-> r.scope, idHow |-> r.idHow,
   nameHow |-> r.nameHow, uses |-> r.uses, mentions |-> Len(r.mentions),
   fixed |-> CASE r.kind = "addIngressRule" ->
                    [r.fixed EXCEPT !.port = IF @ = AppPort(s) THEN 0 ELSE @]
               [] r.kind = "userData.addCommands" ->
                    [commands |-> Len(r.fixed.commands)]
               [] OTHER -> r.fixed,
   own |-> DOMAIN r.own]

\* The number of statements each kind has in a constructor.
KindCount(kind) == IF kind = "addIngressRule" THEN 4 ELSE 1

AllKinds ==
  OrderedKinds \cup {"addIngressRule", "UserData.forLinux",
                     "userData.addCommands", "AwsLogDriver",
                     "Repository.fromRepositoryName"}

\* C6: step by step the two constructors declare a resource of the same kind
\* with the same structure, differing only in per-stack constants, and each
\* declares one resource of every kind (four ingress rules).
C6_SameSequence ==
  /\ \A i \in DOMAIN declared["strapi"] \cap DOMAIN declared["nextjs"] :
       Shape("strapi", declared["strapi"][i]) = Shape("nextjs", declared["nextjs"][i])
  /\ \A s \in StackIds :
       /\ \A i \in DOMAIN declared[s] : declared[s][i].kind \in AllKinds
       /\ \A kind \in AllKinds : Cardinality(OfKind(s, kind)) <= KindCount(kind)
       /\ Done(s) => \A kind \in AllKinds : Cardinality(OfKind(s, kind)) = KindCount(kind)
  /\ (Done("strapi") /\ Done("nextjs")) => Len(declared["strapi"]) = Len(declared["nextjs"])

C6_Witness ==
  /\ Done("strapi") /\ Done("nextjs")
  /\ Len(declared["nextjs"]) = 20
  /\ declared["strapi"][20].kind = "CfnOutput"
  /\ declared["strapi"][6].fixed.port # declared["nextjs"][6].fixed.port

\* C7: each stack emits exactly one output; its value is the serviceName of
\* the service of the same stack, "stack-<id>-Service", which is not the
\* service name of the other stack; that service takes the stack's cluster
\* and task definition and has desired count 1.
C7_OutputIsOwnService ==
  \A s \in StackIds :
    /\ Len(outputs[s]) <= 1
    /\ Done(s) => Len(outputs[s]) = 1
    /\ \A k \in DOMAIN outputs[s] :
         /\ outputs[s][k].value = "stack-" \o s \o "-Service"
         /\ outputs[s][k].value # "stack-" \o OtherStack(s) \o "-Service"
         /\ Cardinality(OfKind(s, "Ec2Service")) = 1
         /\ \A i \in OfKind(s, "Ec2Service") :
              /\ declared[s][i].name = outputs[s][k].value
              /\ declared[s][i].uses = {"cluster", "taskDef"}
              /\ declared[s][i].fixed.desiredCount = 1
              /\ \E c \in OfKind(s, "Cluster") : c < i
              /\ \E t \in OfKind(s, "Ec2TaskDefinition") : t < i
         /\ \A i \in OfKind(OtherStack(s), "Ec2Service") :
              declared[OtherStack(s)][i].name # outputs[s][k].value

C7_Witness ==
  /\ outputs["strapi"] = << [id |-> "Service Name", value |-> "stack-strapi-Service"] >>
  /\ outputs["nextjs"] = << [id |-> "Service Name", value |-> "stack-nextjs-Service"] >>

\* The kinds of resource that are given a physical name.
NamedKinds ==
  {"SecurityGroup", "KeyPair", "Role", "Cluster", "LaunchTemplate",
   "AutoScalingGroup", "Ec2Service", "Ec2TaskDefinition"}

\* C8: (a) within each stack the construct identifiers declared in the stack
\* scope are pairwise distinct, the literal ones included; (b) no physical
\* name of a resource of one stack is the name of a resource of the same
\* kind of the other stack.
C8_IdentifiersDistinct ==
  /\ \A s \in StackIds :
       \A i, j \in DOMAIN declared[s] :
         (i # j /\ declared[s][i].scope = "this" /\ declared[s][j].scope = "this")
           => declared[s][i].cid # declared[s][j].cid
  /\ \A kind \in NamedKinds :
       \A i \in OfKind("strapi", kind) : \A j \in OfKind("nextjs", kind) :
         /\ declared["strapi"][i].nameHow # "none"
         /\ declared["nextjs"][j].nameHow # "none"
         /\ declared["strapi"][i].name # declared["nextjs"][j].name

C8_Witness ==
  /\ \A s \in StackIds :
       /\ Done(s)
       /\ Cardinality({i \in DOMAIN declared[s] : declared[s][i].scope = "this"}) = 13
       /\ \E i, j \in DOMAIN declared[s] :
            /\ declared[s][i].cid = s
            /\ declared[s][j].cid = "stack-" \o s \o "-" \o startCase(s)
  /\ \E i \in OfKind("strapi", "Cluster") : declared["strapi"][i].name = "nextjs_strapi"
  /\ \E j \in OfKind("nextjs", "Cluster") : declared["nextjs"][j].name = "nextjs"

\* The command lines of stack s's bootstrap script that run cfn-signal.
SignalCommands(s) ==
  {i \in DOMAIN userData[s] : Find(userData[s][i], "/opt/aws/bin/cfn-signal ") = 1}

\* C9, as claimed: for every account and region the environment supplies,
\* the cfn-signal command of the bootstrap script is addressed to the stack,
\* the identifier and the region of the auto scaling group that waits for
\* the signal (Signals.waitForAll), so the group's wait can be satisfied.
C9_SignalReachesGroup ==
  \A s \in StackIds :
    \A g \in OfKind(s, "AutoScalingGroup") :
      declared[s][g].fixed.signals.type = "waitForAll" =>
        /\ SignalCommands(s) # {}
        /\ \A i \in SignalCommands(s) :
             /\ ArgAfter(userData[s][i], "--stack") = stacks[s].stackName
             /\ ArgAfter(userData[s][i], "--resource") = declared[s][g].cid
             /\ ArgAfter(userData[s][i], "--region") = stacks[s].region

====
